---- MODULE Spec2Model ----
(***************************************************************************)
(* The point source panner of ear.core.point_source: configure(layout)    *)
(* builds a panner (regions over the convex hull of the loudspeakers), and *)
(* handle(position) asks it for the gains of one source position.          *)
(*                                                                         *)
(* Numbers.  The code computes in IEEE doubles; the model computes in      *)
(* integers.  Loudspeaker positions are integer vectors of length 25 (the  *)
(* sphere x^2 + y^2 + z^2 = 25^2 stands for the unit sphere), so that the  *)
(* hull, the coplanarity of facets and the sign tests of the regions are   *)
(* exact.  Gains are fixed point numbers: the integer g stands for         *)
(* g / GainScale.  NaN is the one non-finite double the model keeps.       *)
(***************************************************************************)
EXTENDS Integers, Sequences, FiniteSets, TLC

VARIABLES pc, layout, panner, query, np, psp_pv, result, adm

vars == <<pc, layout, panner, query, np, psp_pv, result, adm>>

----------------------------------------------------------------------------
(* Bounds of the model. *)

\* source positions are the integer vectors with coordinates in -MaxCoord..MaxCoord
MaxCoord == 2

\* an audioChannelFormat has 1..MaxBlocks block formats
MaxBlocks == 2

\* the rtime of a block format is one of 0..MaxTime (seconds)
MaxTime == 2

\* the duration of a block format is one of 1..MaxDuration and its
\* interpolationLength one of 0..MaxDuration (seconds)
MaxDuration == 2

\* a gain g of the code is the integer g * GainScale (rounded down)
GainScale == 1000

----------------------------------------------------------------------------
(* Integer helpers. *)

Abs(x) == IF x < 0 THEN -x ELSE x

Sign(x) == IF x > 0 THEN 1 ELSE IF x < 0 THEN -1 ELSE 0

MaxOf(S) == CHOOSE m \in S : \A x \in S : x <= m

MinOf(S) == CHOOSE m \in S : \A x \in S : m <= x

RECURSIVE SumSeq(_)
SumSeq(s) == IF s = <<>> THEN 0 ELSE Head(s) + SumSeq(Tail(s))

RECURSIVE SortedSeq(_)
\* the elements of a finite set of integers, ascending
SortedSeq(S) == IF S = {} THEN <<>>
                ELSE LET m == MinOf(S) IN <<m>> \o SortedSeq(S \ {m})

RECURSIVE Gcd(_, _)
Gcd(a, b) == IF b = 0 THEN a ELSE Gcd(b, a % b)

RECURSIVE ISqrtIn(_, _, _)
\* the largest r in lo..hi with r * r <= x (hi is at most 46340, so r * r fits)
ISqrtIn(x, lo, hi) ==
    IF lo >= hi THEN lo
    ELSE LET mid == (lo + hi + 1) \div 2
         IN IF mid * mid <= x THEN ISqrtIn(x, mid, hi) ELSE ISqrtIn(x, lo, mid - 1)

\* floor of the square root of x >= 0
ISqrt(x) == ISqrtIn(x, 0, 46340)

----------------------------------------------------------------------------
(* Vectors of three integers. *)

VSub(a, b) == <<a[1] - b[1], a[2] - b[2], a[3] - b[3]>>

VAdd(a, b) == <<a[1] + b[1], a[2] + b[2], a[3] + b[3]>>

Dot(a, b) == a[1] * b[1] + a[2] * b[2] + a[3] * b[3]

Cross(a, b) == <<a[2] * b[3] - a[3] * b[2],
                 a[3] * b[1] - a[1] * b[3],
                 a[1] * b[2] - a[2] * b[1]>>

Det3(m) == Dot(m[1], Cross(m[2], m[3]))

----------------------------------------------------------------------------
(* Doubles: an integer, or NaN.  Every comparison with NaN is false and    *)
(* every sum, product or quotient with NaN is NaN, as in IEEE arithmetic.  *)

\* the result of 0.0 / 0.0, e.g. of pv /= np.linalg.norm(pv) for pv = 0
NaN == -1000000000

IsNaN(x) == x = NaN

HasNaN(v) == \E i \in DOMAIN v : IsNaN(v[i])

AllNaN(n) == [i \in 1..n |-> NaN]

\* x >= 0 as the code evaluates it on doubles
FNonNeg(x) == ~IsNaN(x) /\ x >= 0

----------------------------------------------------------------------------
(* Layouts (ear.core.layout): a name and channels; a channel has a name,   *)
(* a nominal and a real polar position in degrees, and the LFE flag.       *)

Chan(name, naz, nel, raz, rel, lfe) ==
    [name |-> name, nominal_az |-> naz, nominal_el |-> nel,
     real_az |-> raz, real_el |-> rel, is_lfe |-> lfe]

\* a channel standing at its nominal position
Nom(name, az, el) == Chan(name, az, el, az, el, FALSE)

channel_names(l) == [i \in DOMAIN l.channels |-> l.channels[i].name]

\* the polar to cartesian conversion on the integer sphere of radius 25:
\* azimuth is anticlockwise from the front (+y), so a positive azimuth is at
\* negative x; each angle is moved to the nearest direction whose sine and
\* cosine are multiples of 1/5 (30 degrees to the angle of the 3-4-5 triangle)
AzXY(az) ==
    LET a == Abs(az)
        v == IF a < 18 THEN <<0, 25>>
             ELSE IF a < 45 THEN <<-15, 20>>
             ELSE IF a < 72 THEN <<-20, 15>>
             ELSE IF a < 108 THEN <<-25, 0>>
             ELSE IF a < 135 THEN <<-20, -15>>
             ELSE IF a < 162 THEN <<-15, -20>>
             ELSE <<0, -25>>
    IN IF az >= 0 THEN v ELSE <<-v[1], v[2]>>

ElHZ(el) ==
    LET a == Abs(el)
        r == IF a < 18 THEN <<5, 0>>
             ELSE IF a < 45 THEN <<4, 15>>
             ELSE IF a < 72 THEN <<3, 20>>
             ELSE <<0, 25>>
    IN IF el >= 0 THEN r ELSE <<r[1], -r[2]>>

Cart(az, el) ==
    LET xy == AzXY(az)
        hz == ElHZ(el)
    IN <<(xy[1] * hz[1]) \div 5, (xy[2] * hz[1]) \div 5, hz[2]>>

nominal_positions(chs) == [i \in DOMAIN chs |-> Cart(chs[i].nominal_az, chs[i].nominal_el)]

norm_positions(chs) == [i \in DOMAIN chs |-> Cart(chs[i].real_az, chs[i].real_el)]

----------------------------------------------------------------------------
(* extra_pos_vertical_nominal: extra loudspeakers that fill the gaps of    *)
(* the lower and the upper layer, and the downmix that folds them back.    *)

\* (layer_nominal_el, layer_lb, layer_ub) of the lower and the upper layer
layers == << [nominal_el |-> -30, lb |-> -70, ub |-> -10],
             [nominal_el |-> 30, lb |-> 10, ub |-> 70] >>

\* the indices of the channels of the mid layer
mid(chs) == {i \in DOMAIN chs : -10 <= chs[i].nominal_el /\ chs[i].nominal_el <= 10}

\* the indices of the channels of layer L
layer(chs, L) == {i \in DOMAIN chs : L.lb <= chs[i].nominal_el /\ chs[i].nominal_el <= L.ub}

az_limit(chs, L) ==
    IF layer(chs, L) # {}
    THEN MaxOf({Abs(chs[i].nominal_az) : i \in layer(chs, L)}) + 40
    ELSE 0

\* np.mean of the real elevations of the layer, in whole degrees
layer_real_el(chs, L) ==
    IF layer(chs, L) # {}
    THEN SumSeq([k \in 1..Cardinality(layer(chs, L)) |->
                    chs[SortedSeq(layer(chs, L))[k]].real_el])
         \div Cardinality(layer(chs, L))
    ELSE L.nominal_el

\* a variant that leaves out the channels exactly at the limit
beyond_az_limit_strict(az, limit) == Abs(az) * 100000 > limit * 100000

\* np.abs(mid_pos.nominal_az) >= az_limit - epsilon, epsilon = 1e-5: both
\* sides in units of 1e-5 degrees
beyond_az_limit(az, limit) == Abs(az) * 100000 >= limit * 100000 - 1

\* the mid channels, ascending, that get an extra channel on layer L
extra_sources(chs, L) ==
    SortedSeq({i \in mid(chs) : beyond_az_limit(chs[i].nominal_az, az_limit(chs, L))})

\* the extra channel above or below mid channel m, on layer L
extra_channel(chs, L, m) ==
    [mid_channel |-> m,
     channel |-> Chan("extra", chs[m].nominal_az, L.nominal_el,
                      chs[m].real_az, layer_real_el(chs, L), FALSE)]

\* the extra channels of layer L with the mid channel each is mixed to
layer_extras(chs, L) ==
    [k \in 1..Len(extra_sources(chs, L)) |-> extra_channel(chs, L, extra_sources(chs, L)[k])]

\* downmix: the rows appended to list(np.identity(n)) are its columns n + 1
\* and up after the transposition
extra_downmix(n, ex) ==
    [r \in 1..n |->
        [c \in 1..(n + Len(ex)) |->
            IF c <= n THEN (IF r = c THEN 1 ELSE 0)
            ELSE (IF r = ex[c - n].mid_channel THEN 1 ELSE 0)]]

\* the two results of extra_pos_vertical_nominal, from the extras of both layers
extra_results(n, ex) ==
    [extra_channels |-> [k \in 1..Len(ex) |-> ex[k].channel],
     downmix |-> extra_downmix(n, ex)]

extra_pos_vertical_nominal(l) ==
    extra_results(Len(l.channels),
                  layer_extras(l.channels, layers[1]) \o layer_extras(l.channels, layers[2]))

----------------------------------------------------------------------------
(* _convex_hull_facets: the facets of the convex hull, coplanar triangles  *)
(* merged.  scipy.spatial.ConvexHull returns triangles with their plane    *)
(* equations and the code merges the triangles whose equations agree       *)
(* within 1e-5; on integer positions a plane supports the hull when no     *)
(* point is beyond it, and its facet is every point on it.                 *)

\* n . (P[m] - P[i]) for every point m, n the normal of the plane through
\* P[i], P[j], P[k]
plane_sides(P, i, j, k) ==
    LET normal == Cross(VSub(P[j], P[i]), VSub(P[k], P[i]))
    IN [m \in DOMAIN P |-> Dot(normal, VSub(P[m], P[i]))]

\* a plane through three points that are not on one line, with no point beyond it
is_simplex_plane(sides) ==
    /\ \E m \in DOMAIN sides : sides[m] # 0
    /\ \/ \A m \in DOMAIN sides : sides[m] >= 0
       \/ \A m \in DOMAIN sides : sides[m] <= 0

\* the facets as a set of sets of vertex indices
hull_facet_set(P) ==
    { {m \in DOMAIN P : sides[m] = 0} :
        sides \in {x \in {plane_sides(P, t[1], t[2], t[3]) :
                             t \in {u \in (DOMAIN P) \X (DOMAIN P) \X (DOMAIN P) :
                                       u[1] < u[2] /\ u[2] < u[3]}} :
                      is_simplex_plane(x)} }

RECURSIVE SeqLess(_, _)
\* lexicographic order of two sequences of integers
SeqLess(a, b) ==
    IF a = <<>> THEN b # <<>>
    ELSE IF b = <<>> THEN FALSE
    ELSE IF Head(a) # Head(b) THEN Head(a) < Head(b)
    ELSE SeqLess(Tail(a), Tail(b))

\* the first facet of F in the order of the list
first_facet(F, ascending) ==
    CHOOSE x \in F : \A y \in F \ {x} :
        IF ascending THEN SeqLess(SortedSeq(x), SortedSeq(y))
        ELSE SeqLess(SortedSeq(y), SortedSeq(x))

RECURSIVE facet_list_from(_, _, _)
\* f, then the other facets of F
facet_list_from(F, f, ascending) ==
    <<f>> \o (IF F = {f} THEN <<>>
              ELSE facet_list_from(F \ {f}, first_facet(F \ {f}, ascending), ascending))

\* the facets as a list: the order of hull.simplices is Qhull's, which the
\* code does not fix; ascending and descending lists are both modelled
facet_list(F, ascending) ==
    IF F = {} THEN <<>> ELSE facet_list_from(F, first_facet(F, ascending), ascending)

_convex_hull_facets(P, ascending) == facet_list(hull_facet_set(P), ascending)

\* _adjacent_verts: the vertices that share a facet with vert
_adjacent_verts(facets, vert) ==
    UNION {facets[k] \ {vert} : k \in {q \in DOMAIN facets : vert \in facets[q]}}

----------------------------------------------------------------------------
(* ngon_vertex_order (ear.core.geom): the vertices of an n-gon in cyclic   *)
(* order about their centroid.  The positions are turned about the axis    *)
(* through the centroid, starting from the first one.                      *)

\* n times the centroid
centroid_sum(positions) ==
    <<SumSeq([i \in DOMAIN positions |-> positions[i][1]]),
      SumSeq([i \in DOMAIN positions |-> positions[i][2]]),
      SumSeq([i \in DOMAIN positions |-> positions[i][3]])>>

\* the axis the vertices are turned about
ngon_axis(c) == IF c = <<0, 0, 0>> THEN <<0, 0, 1>> ELSE c

\* n times the vector from the centroid to each vertex
ngon_spokes(positions, c) ==
    [i \in DOMAIN positions |->
        VSub(<<Len(positions) * positions[i][1], Len(positions) * positions[i][2],
               Len(positions) * positions[i][3]>>, c)]

\* positive when spoke b is less than half a turn after spoke a
ngon_turn(axis, u, a, b) == Dot(axis, Cross(u[a], u[b]))

\* 0: within half a turn after the first vertex; 1: the other half
ngon_half(axis, u, a) ==
    IF a = 1 \/ ngon_turn(axis, u, 1, a) > 0
             \/ (ngon_turn(axis, u, 1, a) = 0 /\ Dot(u[1], u[a]) > 0)
    THEN 0 ELSE 1

\* vertex a comes before vertex b on the way round
ngon_before(axis, u, a, b) ==
    /\ a # b
    /\ \/ a = 1
       \/ b # 1 /\ ngon_half(axis, u, a) < ngon_half(axis, u, b)
       \/ b # 1 /\ ngon_half(axis, u, a) = ngon_half(axis, u, b)
                /\ ngon_turn(axis, u, a, b) > 0
       \/ b # 1 /\ ngon_half(axis, u, a) = ngon_half(axis, u, b)
                /\ ngon_turn(axis, u, a, b) = 0 /\ a < b

ngon_order_about(axis, u) ==
    [k \in DOMAIN u |->
        CHOOSE a \in DOMAIN u :
            Cardinality({b \in DOMAIN u : ngon_before(axis, u, b, a)}) = k - 1]

ngon_vertex_order(positions) ==
    ngon_order_about(ngon_axis(centroid_sum(positions)),
                     ngon_spokes(positions, centroid_sum(positions)))

----------------------------------------------------------------------------
(* The region handlers, as built by their constructors.  Channel numbers   *)
(* count from 1 in the model and from 0 in the code.                       *)

\* Triplet.__attrs_post_init__: _basis = np.linalg.inv(positions), kept as the
\* adjugate (its columns are the cross products of the rows) over the determinant
Triplet(output_channels, positions) ==
    [type |-> "Triplet",
     output_channels |-> output_channels,
     positions |-> positions,
     basis |-> [adj |-> <<Cross(positions[2], positions[3]),
                          Cross(positions[3], positions[1]),
                          Cross(positions[1], positions[2])>>,
                det |-> Det3(positions)]]

\* np.linalg.inv raises LinAlgError on a singular matrix
singular(triplet) == triplet.basis.det = 0

\* the triplets of a VirtualNgon
set_of_regions(ngon) == {ngon.regions[i] : i \in DOMAIN ngon.regions}

\* a variant whose loop stops one short, range(n - 1): the edge from the
\* last vertex of the order back to the first gets no triplet
ngon_triplets_open(positions, centre_position, order) ==
    [i \in 1..(Len(order) - 1) |->
        Triplet(<<order[i], order[i + 1], Len(order) + 1>>,
                <<positions[order[i]], positions[order[i + 1]], centre_position>>)]

\* the loop of VirtualNgon.__attrs_post_init__: one triplet for each edge of
\* the n-gon, with the virtual centre in slot n (slot n + 1 here)
ngon_triplets(positions, centre_position, order) ==
    [i \in DOMAIN order |->
        Triplet(<<order[i], order[(i % Len(order)) + 1], Len(order) + 1>>,
                <<positions[order[i]], positions[order[(i % Len(order)) + 1]],
                  centre_position>>)]

\* VirtualNgon.__attrs_post_init__
VirtualNgon(output_channels, positions, centre_position, centre_downmix) ==
    [type |-> "VirtualNgon",
     output_channels |-> output_channels,
     positions |-> positions,
     centre_position |-> centre_position,
     centre_downmix |-> centre_downmix,
     regions |-> ngon_triplets(positions, centre_position, ngon_vertex_order(positions))]

\* QuadRegion.pan_axis: the coefficients of the polynomial, highest power first
pan_axis(spk_positions) ==
    LET a == spk_positions[1]
        b == spk_positions[2]
        c == spk_positions[3]
        d == spk_positions[4]
    IN <<Cross(VSub(b, a), VSub(c, d)),
         VAdd(Cross(a, VSub(c, d)), Cross(VSub(b, a), d)),
         Cross(a, d)>>

\* QuadRegion with its order: pan_x from positions[order], pan_y from
\* positions[order][[1, 2, 3, 0]]
quad_in_order(output_channels, positions, order) ==
    [type |-> "QuadRegion",
     output_channels |-> output_channels,
     positions |-> positions,
     order |-> order,
     pan_x |-> pan_axis([k \in 1..4 |-> positions[order[k]]]),
     pan_y |-> pan_axis(<<positions[order[2]], positions[order[3]],
                          positions[order[4]], positions[order[1]]>>)]

\* QuadRegion.__attrs_post_init__
QuadRegion(output_channels, positions) ==
    quad_in_order(output_channels, positions, ngon_vertex_order(positions))

\* a variant that forgets the "+ 1" after the greatest channel number
_num_required_channels_max(regions) ==
    MaxOf(UNION {{regions[k].output_channels[i] : i \in DOMAIN regions[k].output_channels} :
                    k \in DOMAIN regions}) - 1

\* PointSourcePanner._num_required_channels: max over the regions of the
\* greatest output channel, plus one (channel c of the code is c + 1 here)
_num_required_channels(regions) ==
    MaxOf(UNION {{regions[k].output_channels[i] : i \in DOMAIN regions[k].output_channels} :
                    k \in DOMAIN regions})

\* PointSourcePanner(regions): num_channels is not given, so it is computed
PointSourcePanner(regions) ==
    [type |-> "PointSourcePanner",
     regions |-> regions,
     num_channels |-> _num_required_channels(regions)]

PointSourcePannerDownmix(psp, downmix) ==
    [type |-> "PointSourcePannerDownmix", psp |-> psp, downmix |-> downmix]

\* a variant that takes downmix.shape[1], which counts the extra channels
num_channels_columns(p) ==
    IF p.type = "PointSourcePannerDownmix" THEN Len(p.downmix[1]) ELSE p.num_channels

\* PointSourcePannerDownmix.num_channels is downmix.shape[0]
num_channels(p) ==
    IF p.type = "PointSourcePannerDownmix" THEN Len(p.downmix) ELSE p.num_channels

----------------------------------------------------------------------------
(* configure: the outcome is a panner, or the exception that ends it.      *)

NoPanner == [type |-> "none"]

\* the locals of _configure_full when it ends; none on the 0+2+0 path
NoLocals == [extra_channels |-> <<>>, downmix |-> <<>>, virtual_positions |-> <<>>,
             virtual_verts |-> <<>>, facets |-> <<>>]

Configured(p, locals) == [status |-> "ok", error |-> "", panner |-> p, locals |-> locals]

Failed(e, locals) == [status |-> "error", error |-> e, panner |-> NoPanner, locals |-> locals]

\* a variant that looks for T+000 only
virtual_positions_top_only(l) ==
    IF \E i \in DOMAIN l.channels : l.channels[i].name = "T+000"
    THEN << <<0, 0, -25>> >>
    ELSE << <<0, 0, -25>>, <<0, 0, 25>> >>

\* [[0, 0, -1]], and [0, 0, 1] unless the layout has T+000 or UH+180
virtual_positions(l) ==
    IF \E i \in DOMAIN l.channels : l.channels[i].name \in {"T+000", "UH+180"}
    THEN << <<0, 0, -25>> >>
    ELSE << <<0, 0, -25>>, <<0, 0, 25>> >>

\* the first exception of a list of outcomes ("" is none)
RECURSIVE first_error(_)
first_error(errs) ==
    IF errs = <<>> THEN ""
    ELSE IF Head(errs) # "" THEN Head(errs)
    ELSE first_error(Tail(errs))

\* np.fromiter over a Python set of small integers, taken as ascending
fromiter(verts) == SortedSeq(verts)

\* the VirtualNgon over real_verts, with an equal power downmix of its centre
ngon_over(real_verts, positions_real, virtual_vert) ==
    VirtualNgon(real_verts,
                [i \in DOMAIN real_verts |-> positions_real[real_verts[i]]],
                positions_real[virtual_vert],
                [i \in DOMAIN real_verts |->
                    ISqrt((GainScale * GainScale) \div Len(real_verts))])

\* the VirtualNgon of virtual_vert
virtual_ngon(facets, positions_real, virtual_vert) ==
    ngon_over(fromiter(_adjacent_verts(facets, virtual_vert)), positions_real, virtual_vert)

\* what stops the first loop at virtual_vert: the assertion on its ring, or
\* the inverse of a singular triplet
virtual_ngon_error(facets, positions_real, virtual_verts, virtual_vert) ==
    IF \E k \in DOMAIN virtual_verts :
          virtual_verts[k] \in _adjacent_verts(facets, virtual_vert)
    THEN "AssertionError"
    ELSE IF \E t \in set_of_regions(virtual_ngon(facets, positions_real, virtual_vert)) :
                singular(t)
    THEN "LinAlgError"
    ELSE ""

\* a variant that skips no facet
plain_facets_all(facets, virtual_verts) == facets

\* the facets the second loop does not skip
plain_facets(facets, virtual_verts) ==
    SelectSeq(facets, LAMBDA f : \A k \in DOMAIN virtual_verts : virtual_verts[k] \notin f)

\* the region of a facet of three or four vertices
facet_region(facet_verts, positions_real) ==
    IF Len(facet_verts) = 3
    THEN Triplet(facet_verts, [i \in 1..3 |-> positions_real[facet_verts[i]]])
    ELSE QuadRegion(facet_verts, [i \in 1..4 |-> positions_real[facet_verts[i]]])

\* what stops the second loop at a facet
facet_error(facet_verts, positions_real) ==
    IF Len(facet_verts) = 3
    THEN (IF singular(facet_region(facet_verts, positions_real)) THEN "LinAlgError" ELSE "")
    ELSE IF Len(facet_verts) = 4 THEN ""
    ELSE "AssertionError: facets with more than 4 vertices are not supported"

\* the end of _configure_full: the exception of a loop, or the panner
configure_outcome(locals, error, regions) ==
    IF error # "" THEN Failed(error, locals)
    ELSE Configured(PointSourcePannerDownmix(PointSourcePanner(regions), locals.downmix),
                    locals)

\* a variant that runs the loop over the plain facets first, so that the
\* Triplets and QuadRegions come before the VirtualNgons
configure_regions_facets_first(locals, positions_real, plain) ==
    configure_outcome(
        locals,
        first_error(
            [k \in DOMAIN plain |-> facet_error(fromiter(plain[k]), positions_real)]
            \o [k \in DOMAIN locals.virtual_verts |->
                   virtual_ngon_error(locals.facets, positions_real, locals.virtual_verts,
                                      locals.virtual_verts[k])]),
        [k \in DOMAIN plain |-> facet_region(fromiter(plain[k]), positions_real)]
        \o [k \in DOMAIN locals.virtual_verts |->
               virtual_ngon(locals.facets, positions_real, locals.virtual_verts[k])])

\* the two loops of _configure_full over the facets; plain are the facets the
\* second loop does not skip
configure_regions(locals, positions_real, plain) ==
    configure_outcome(
        locals,
        first_error(
            [k \in DOMAIN locals.virtual_verts |->
                virtual_ngon_error(locals.facets, positions_real, locals.virtual_verts,
                                   locals.virtual_verts[k])]
            \o [k \in DOMAIN plain |-> facet_error(fromiter(plain[k]), positions_real)]),
        [k \in DOMAIN locals.virtual_verts |->
            virtual_ngon(locals.facets, positions_real, locals.virtual_verts[k])]
        \o [k \in DOMAIN plain |-> facet_region(fromiter(plain[k]), positions_real)])

\* _configure_full from the hull on; scipy.spatial.ConvexHull raises QhullError
\* when the positions lie in one plane
configure_hull(locals, positions_real) ==
    IF \E k \in DOMAIN locals.facets : locals.facets[k] = DOMAIN positions_real
    THEN Failed("QhullError", [locals EXCEPT !.facets = <<>>])
    ELSE configure_regions(locals, positions_real,
                           plain_facets(locals.facets, locals.virtual_verts))

\* _configure_full with the extra channels and the virtual positions
configure_extra(channels_extra, e, vp, ascending) ==
    configure_hull(
        [extra_channels |-> e.extra_channels,
         downmix |-> e.downmix,
         virtual_positions |-> vp,
         virtual_verts |-> [k \in DOMAIN vp |-> Len(channels_extra) + k],
         facets |-> _convex_hull_facets(nominal_positions(channels_extra) \o vp, ascending)],
        norm_positions(channels_extra) \o vp)

_configure_full(l, ascending) ==
    configure_extra(l.channels \o extra_pos_vertical_nominal(l).extra_channels,
                    extra_pos_vertical_nominal(l), virtual_positions(l), ascending)

\* bs2051.get_layout("0+5+0").without_lfe
bs2051_0_5_0 ==
    [name |-> "0+5+0",
     channels |-> <<Nom("M+030", 30, 0), Nom("M-030", -30, 0), Nom("M+000", 0, 0),
                    Nom("M+110", 110, 0), Nom("M-110", -110, 0)>>]

\* list.index: the first position of name, 0 when it is not there (ValueError)
index(names, name) ==
    IF \E i \in DOMAIN names : names[i] = name
    THEN MinOf({i \in DOMAIN names : names[i] = name})
    ELSE 0

RECURSIVE configure(_, _)

\* StereoPanDownmix.__attrs_post_init__: psp = configure(0+5+0)
StereoPanDownmix(left_channel, right_channel, ascending) ==
    [type |-> "StereoPanDownmix",
     left_channel |-> left_channel,
     right_channel |-> right_channel,
     output_channels |-> <<left_channel, right_channel>>,
     psp |-> configure(bs2051_0_5_0, ascending).panner]

\* PointSourcePanner([panner]), or the exception of StereoPanDownmix(...)
stereo_outcome(region) ==
    IF region.psp = NoPanner THEN Failed("AssertionError", NoLocals)
    ELSE Configured(PointSourcePanner(<<region>>), NoLocals)

_configure_stereo(l, ascending) ==
    IF index(channel_names(l), "M+030") = 0 \/ index(channel_names(l), "M-030") = 0
    THEN Failed("ValueError", NoLocals)
    ELSE stereo_outcome(StereoPanDownmix(index(channel_names(l), "M+030"),
                                         index(channel_names(l), "M-030"), ascending))

\* a variant that takes the branch on the name before it looks for LFE
configure_name_first(l, ascending) ==
    IF l.name = "0+2+0" THEN _configure_stereo(l, ascending)
    ELSE IF \E i \in DOMAIN l.channels : l.channels[i].is_lfe
    THEN Failed("AssertionError: lfe channel passed to point source panner", NoLocals)
    ELSE _configure_full(l, ascending)

configure(l, ascending) ==
    IF \E i \in DOMAIN l.channels : l.channels[i].is_lfe
    THEN Failed("AssertionError: lfe channel passed to point source panner", NoLocals)
    ELSE IF l.name = "0+2+0" THEN _configure_stereo(l, ascending)
    ELSE _configure_full(l, ascending)

----------------------------------------------------------------------------
(* handle: the outcome is None, an array of gains, or an exception.        *)

None == [kind |-> "none", g |-> <<>>, error |-> ""]

Gains(g) == [kind |-> "gains", g |-> g, error |-> ""]

Raise(e) == [kind |-> "raise", g |-> <<>>, error |-> e]

\* what numpy does where the code does not decide it: which root of a
\* quadratic np.roots lists first, and whether it raises on NaN coefficients
\* (numpy.linalg.eigvals raises LinAlgError) or finds no root
Envs == [plus_first : BOOLEAN, roots_raise : BOOLEAN]

\* np.clip(x, 0, 1)
Clip01(x) == IF IsNaN(x) THEN NaN
             ELSE IF x < 0 THEN 0 ELSE IF x > GainScale THEN GainScale ELSE x

\* w / norm for the norm of w, as gains
over_norm(w, norm) == [i \in DOMAIN w |-> (GainScale * w[i]) \div norm]

\* v with its greatest component m brought to about 1000, so that the
\* integer square root of the sum of squares is exact enough
scaled(v, m) ==
    [i \in DOMAIN v |->
        IF m >= 2000 THEN v[i] \div (m \div 1000)
        ELSE IF m >= 1000 THEN v[i]
        ELSE v[i] * (1000 \div m)]

sum_of_squares(w) == SumSeq([i \in DOMAIN w |-> w[i] * w[i]])

\* v / np.linalg.norm(v) for a finite v with greatest component m; 0 / 0 is NaN
normalised_by(v, m) ==
    IF m = 0 THEN AllNaN(Len(v))
    ELSE over_norm(scaled(v, m), ISqrt(sum_of_squares(scaled(v, m))))

\* v / np.linalg.norm(v)
normalised(v) ==
    IF HasNaN(v) THEN AllNaN(Len(v))
    ELSE normalised_by(v, MaxOf({Abs(v[i]) : i \in DOMAIN v}))

\* RegionHandler.handle_remap: out = np.zeros(nchannels); out[output_channels] = pv
handle_remap(pv, output_channels, nchannels) ==
    IF pv.kind # "gains" THEN pv
    ELSE Gains([c \in 1..nchannels |->
                   IF \E i \in DOMAIN output_channels : output_channels[i] = c
                   THEN pv.g[MaxOf({i \in DOMAIN output_channels : output_channels[i] = c})]
                   ELSE 0])

\* the rest of Triplet.handle after pv = np.dot(position, self._basis)
accepted(pv) ==
    IF pv[1] >= 0 /\ pv[2] >= 0 /\ pv[3] >= 0
    THEN Gains([j \in 1..3 |-> Clip01(normalised(pv)[j])])
    ELSE None

\* a variant that wants every component above zero, so that the edges and
\* corners of a triplet belong to nobody
Triplet_handle_strict(self, position) ==
    IF HasNaN(position)
       \/ \E j \in 1..3 : Sign(self.basis.det) * Dot(position, self.basis.adj[j]) <= 0
    THEN None
    ELSE accepted([j \in 1..3 |-> Sign(self.basis.det) * Dot(position, self.basis.adj[j])])

\* Triplet.handle: pv = position . _basis, accepted when no component is below
\* epsilon = -1e-11; the components are integers over |det| < 1e11, so that a
\* component is at least epsilon exactly when its numerator is not negative
Triplet_handle(self, position) ==
    IF HasNaN(position) THEN None
    ELSE accepted([j \in 1..3 |-> Sign(self.basis.det) * Dot(position, self.basis.adj[j])])

\* "if pv is not None: return pv" in a loop: pv, or what the rest of the loop gives
found_or(pv, rest) == IF pv.kind # "none" THEN pv ELSE rest

RECURSIVE first_triplet(_, _, _, _)
\* the first sub-triplet from k on that handles position, remapped
first_triplet(regions, k, position, nchannels) ==
    IF k > Len(regions) THEN None
    ELSE found_or(handle_remap(Triplet_handle(regions[k], position),
                               regions[k].output_channels, nchannels),
                  first_triplet(regions, k + 1, position, nchannels))

\* a variant that drops the virtual slot without folding its gain back
centre_dropped(centre_downmix, pv) ==
    IF pv.kind = "none" THEN None
    ELSE Gains(normalised([i \in DOMAIN centre_downmix |-> pv.g[i]]))

\* the body of the loop of VirtualNgon.handle for the gains pv of a triplet:
\* pv[:-1] += pv[-1] * centre_downmix, then normalise
centre_downmixed(centre_downmix, pv) ==
    IF pv.kind = "none" THEN None
    ELSE Gains(normalised(
             [i \in DOMAIN centre_downmix |->
                 IF IsNaN(pv.g[i]) \/ IsNaN(pv.g[Len(centre_downmix) + 1]) THEN NaN
                 ELSE pv.g[i] + (pv.g[Len(centre_downmix) + 1] * centre_downmix[i])
                                   \div GainScale]))

\* VirtualNgon.handle: the gain of the virtual centre is spread over the
\* real loudspeakers by centre_downmix
VirtualNgon_handle(self, position) ==
    centre_downmixed(self.centre_downmix,
                     first_triplet(self.regions, 1, position, Len(self.centre_downmix) + 1))

\* the root num / den of a polynomial of degree one
rational_root(num, den) ==
    LET n == IF den < 0 THEN -num ELSE num
    IN [in_range |-> 0 <= n /\ n <= Abs(den),
        x |-> Clip01((GainScale * n) \div Abs(den))]

\* the sign of k + sg * sqrt(D), for sg = 1 or -1 and D >= 0
surd_sign(k, sg, D) ==
    IF sg > 0
    THEN (IF k > 0 THEN 1 ELSE IF k = 0 THEN Sign(D) ELSE Sign(D - k * k))
    ELSE (IF k < 0 THEN -1 ELSE IF k = 0 THEN -Sign(D) ELSE Sign(k * k - D))

\* 100 * sqrt(D), rounded down
sqrt100(D) == IF D < 200000 THEN ISqrt(D * 10000) ELSE 100 * ISqrt(D)

\* the root (-B + sg * sqrt(D)) / (2 A) of A t^2 + B t + C, D = B^2 - 4 A C >= 0
surd_root(A, B, D, sg) ==
    LET X == -100 * B + sg * sqrt100(D)
    IN [in_range |-> /\ surd_sign(-B, sg, D) * Sign(A) >= 0
                     /\ surd_sign(-B - 2 * A, sg, D) * Sign(A) <= 0,
        x |-> Clip01((GainScale * (IF A < 0 THEN -X ELSE X)) \div (200 * Abs(A)))]

\* np.roots of A t^2 + B t + C in the order of its result: leading and
\* trailing zero coefficients are stripped, the roots of the rest come first
\* and one root 0 for each trailing zero last.  A root is in range when
\* its imaginary part is below 1e-10 and -1e-10 < root < 1 + 1e-10: the
\* coefficients are integers, so no root is that close to 0 or 1 without
\* being in [0, 1]
roots(A, B, C, plus_first) ==
    IF A # 0 /\ C # 0
    THEN (IF B * B - 4 * A * C < 0 THEN <<>>
          ELSE IF plus_first
          THEN <<surd_root(A, B, B * B - 4 * A * C, 1), surd_root(A, B, B * B - 4 * A * C, -1)>>
          ELSE <<surd_root(A, B, B * B - 4 * A * C, -1), surd_root(A, B, B * B - 4 * A * C, 1)>>)
    ELSE IF A # 0 /\ B # 0 THEN <<rational_root(-B, A), rational_root(0, 1)>>
    ELSE IF A # 0 THEN <<rational_root(0, 1), rational_root(0, 1)>>
    ELSE IF B # 0 /\ C # 0 THEN <<rational_root(-C, B)>>
    ELSE IF B # 0 THEN <<rational_root(0, 1)>>
    ELSE <<>>

\* the first root in range, clipped
first_in_range(rs) ==
    IF \A k \in DOMAIN rs : ~rs[k].in_range THEN None
    ELSE Gains(<<rs[MinOf({k \in DOMAIN rs : rs[k].in_range})].x>>)

\* the coefficients q with their common divisor d taken out: the roots stay
reduced(q, d) == [k \in DOMAIN q |-> IF d = 0 THEN 0 ELSE q[k] \div d]

\* np.roots(q) for finite coefficients, in range or not
roots_of(q, plus_first) ==
    roots(reduced(q, Gcd(Gcd(Abs(q[1]), Abs(q[2])), Abs(q[3])))[1],
          reduced(q, Gcd(Gcd(Abs(q[1]), Abs(q[2])), Abs(q[3])))[2],
          reduced(q, Gcd(Gcd(Abs(q[1]), Abs(q[2])), Abs(q[3])))[3],
          plus_first)

\* the handle function that QuadRegion.pan_axis returns
pan_handle(poly, position, env) ==
    IF HasNaN(position)
    THEN (IF env.roots_raise THEN Raise("LinAlgError") ELSE None)
    ELSE first_in_range(roots_of([k \in 1..3 |-> Dot(poly[k], position)], env.plus_first))

\* pvs.dot(self.positions)
quad_position(self, pvs) ==
    [a \in 1..3 |-> SumSeq([i \in 1..4 |-> pvs[i] * self.positions[i][a]])]

\* the end of QuadRegion.handle, for the gains pvs in the order of the channels
quad_checked(self, position, pvs) ==
    IF Dot(quad_position(self, pvs), position) <= 0 THEN None
    ELSE Gains(normalised(pvs))

\* pvs[self.order] = bilinear
quad_assigned(self, bilinear) ==
    [i \in 1..4 |-> bilinear[CHOOSE k \in 1..4 : self.order[k] = i]]

\* QuadRegion.handle after x and y are known
quad_gains(self, position, x, y) ==
    IF x.kind = "raise" THEN x
    ELSE IF y.kind = "raise" THEN y
    ELSE IF x.kind = "none" \/ y.kind = "none" THEN None
    ELSE quad_checked(self, position,
             quad_assigned(self,
                 <<((GainScale - x.g[1]) * (GainScale - y.g[1])) \div GainScale,
                   (x.g[1] * (GainScale - y.g[1])) \div GainScale,
                   (x.g[1] * y.g[1]) \div GainScale,
                   ((GainScale - x.g[1]) * y.g[1]) \div GainScale>>))

\* QuadRegion.handle
QuadRegion_handle(self, position, env) ==
    quad_gains(self, position,
               pan_handle(self.pan_x, position, env),
               pan_handle(self.pan_y, position, env))

\* A . pv for a matrix A of exact entries; a NaN in pv makes every sum NaN
matrix_dot(A, pv) ==
    [r \in DOMAIN A |->
        IF HasNaN(pv) THEN NaN
        ELSE SumSeq([c \in DOMAIN pv |-> A[r][c] * pv[c]])]

\* 1 - t + t^2 / 2 - t^3 / 6 + t^4 / 24 for t over GainScale
exp_minus(t) ==
    GainScale - t + ((t * t) \div GainScale) \div 2
              - ((((t * t) \div GainScale) * t) \div GainScale) \div 6
              + ((((((t * t) \div GainScale) * t) \div GainScale) * t) \div GainScale) \div 24

\* 0.5 ** (e / GainScale) for 0 <= e <= GainScale / 2, by the exponential series
half_to_the(e) == exp_minus((e * 693147) \div 1000000)

RECURSIVE PointSourcePannerDownmix_handle(_, _, _)

\* the downmix of StereoPanDownmix.handle: np.sqrt(3) / 3 and np.sqrt(0.5)
bs775_downmix ==
    << <<GainScale, 0, ISqrt((GainScale * GainScale) \div 3),
         ISqrt((GainScale * GainScale) \div 2), 0>>,
       <<0, GainScale, ISqrt((GainScale * GainScale) \div 3),
         0, ISqrt((GainScale * GainScale) \div 2)>> >>

\* pv_dmix *= 0.5 ** (0.5 * back / (front + back))
balanced(pv_dmix, front, back) ==
    IF front + back = 0 THEN Gains(AllNaN(2))
    ELSE Gains([r \in 1..2 |->
                   (pv_dmix[r] * half_to_the((GainScale * back) \div (2 * (front + back))))
                      \div GainScale])

\* StereoPanDownmix.handle after pv = self.psp.handle(position): there is
\* no test for None, and np.dot(downmix, None) raises TypeError
stereo_downmixed(inner) ==
    IF inner.kind = "raise" THEN inner
    ELSE IF inner.kind = "none" THEN Raise("TypeError")
    ELSE IF HasNaN(inner.g) THEN Gains(AllNaN(2))
    ELSE balanced(normalised([r \in 1..2 |->
                                 matrix_dot(bs775_downmix, inner.g)[r] \div GainScale]),
                  MaxOf({inner.g[1], inner.g[2], inner.g[3]}),
                  MaxOf({inner.g[4], inner.g[5]}))

\* StereoPanDownmix.handle: pan with 0+5+0, downmix as in BS.775 and scale by
\* the balance of front and back
StereoPanDownmix_handle(self, position, env) ==
    stereo_downmixed(PointSourcePannerDownmix_handle(self.psp, position, env))

\* region.handle(position), by the class of the region
region_handle(region, position, env) ==
    IF region.type = "Triplet" THEN Triplet_handle(region, position)
    ELSE IF region.type = "VirtualNgon" THEN VirtualNgon_handle(region, position)
    ELSE IF region.type = "QuadRegion" THEN QuadRegion_handle(region, position, env)
    ELSE StereoPanDownmix_handle(region, position, env)

RECURSIVE first_region(_, _, _, _, _)
\* the loop of PointSourcePanner.handle from region k on
first_region(regions, k, position, nchannels, env) ==
    IF k > Len(regions) THEN None
    ELSE found_or(handle_remap(region_handle(regions[k], position, env),
                               regions[k].output_channels, nchannels),
                  first_region(regions, k + 1, position, nchannels, env))

\* PointSourcePanner.handle
PointSourcePanner_handle(self, position, env) ==
    first_region(self.regions, 1, position, self.num_channels, env)

\* PointSourcePannerDownmix.handle after pv = self.psp.handle(position):
\* the gains of the inner panner times the downmix matrix, normalised
downmixed(self, pv) ==
    IF pv.kind # "gains" THEN pv
    ELSE IF Len(pv.g) # Len(self.downmix[1])
    THEN Raise("ValueError")    \* np.dot: shapes not aligned
    ELSE Gains(normalised(matrix_dot(self.downmix, pv.g)))

PointSourcePannerDownmix_handle(self, position, env) ==
    downmixed(self, PointSourcePanner_handle(self.psp, position, env))

----------------------------------------------------------------------------
(* The layouts the model configures: the BS.2051 layouts without their LFE *)
(* channels, and layouts that configure must reject.                       *)

M5 == <<Nom("M+030", 30, 0), Nom("M-030", -30, 0), Nom("M+000", 0, 0),
        Nom("M+110", 110, 0), Nom("M-110", -110, 0)>>

U2 == <<Nom("U+030", 30, 30), Nom("U-030", -30, 30)>>

U4 == U2 \o <<Nom("U+110", 110, 30), Nom("U-110", -110, 30)>>

LFE1 == Chan("LFE1", 45, -30, 45, -30, TRUE)

Layouts ==
    { [name |-> "0+2+0", channels |-> <<M5[1], M5[2]>>],
      [name |-> "0+5+0", channels |-> M5],
      [name |-> "2+5+0", channels |-> M5 \o U2],
      [name |-> "4+5+0", channels |-> M5 \o U4],
      [name |-> "4+5+1", channels |-> M5 \o U4 \o <<Nom("B+000", 0, -30)>>],
      [name |-> "3+7+0", channels |-> <<M5[3], M5[1], M5[2], Nom("UH+180", 180, 45),
                                        Nom("M+090", 90, 0), Nom("M-090", -90, 0),
                                        Nom("M+135", 135, 0), Nom("M-135", -135, 0)>>],
      \* a top loudspeaker: no upper virtual loudspeaker
      [name |-> "2+5+0+T", channels |-> M5 \o U2 \o <<Nom("T+000", 0, 90)>>],
      \* the upper layer reaches +-70: the mid channels at +-110 are at the limit
      [name |-> "2+5+0 wide", channels |-> M5 \o <<Nom("U+070", 70, 30), Nom("U-070", -70, 30)>>],
      \* installed away from the nominal positions
      [name |-> "4+5+0 installed",
       channels |-> <<M5[1], M5[2], M5[3],
                      Chan("M+110", 110, 0, 135, 0, FALSE), Chan("M-110", -110, 0, -135, 0, FALSE),
                      Chan("U+030", 30, 30, 30, 45, FALSE), Chan("U-030", -30, 30, -30, 45, FALSE),
                      Chan("U+110", 110, 30, 110, 45, FALSE), Chan("U-110", -110, 30, -110, 45, FALSE)>>],
      \* layouts with an LFE channel
      [name |-> "0+5+0", channels |-> <<M5[1], M5[2], M5[3], LFE1, M5[4], M5[5]>>],
      [name |-> "0+2+0", channels |-> <<M5[1], M5[2], LFE1>>],
      \* five loudspeakers in the plane of the upper layer and no upper virtual one
      [name |-> "5+5+0", channels |-> M5 \o U4 \o <<Nom("UH+180", 180, 30)>>],
      \* all loudspeakers in front: the virtual loudspeakers share a facet
      [name |-> "front", channels |-> <<M5[1], M5[2]>>] }

----------------------------------------------------------------------------
(* The state: a caller configures a layout once and then asks the panner   *)
(* for the gains of one position after the other.                          *)

NoLayout == [name |-> "", channels |-> <<>>]

NoPosition == <<>>

NoEnv == [plus_first |-> FALSE, roots_raise |-> FALSE]

Idle == [kind |-> "idle", g |-> <<>>, error |-> ""]

\* positions on the rim of a ring around a virtual loudspeaker, where a
\* VirtualNgon meets the facets next to it: the middle of the edge between
\* the loudspeakers at azimuth 30 and -30 of the upper and of the lower ring,
\* and a loudspeaker of the upper ring
EdgePositions == {<<0, 32, 30>>, <<0, 32, -30>>, <<12, 16, 15>>}

\* the positions handle is asked for: the integer vectors of the cube (the
\* zero vector among them), the positions on the rim of a ring and the
\* vector of NaNs
Positions ==
    {<<x, y, z>> : x \in -MaxCoord..MaxCoord, y \in -MaxCoord..MaxCoord,
                   z \in -MaxCoord..MaxCoord}
    \cup EdgePositions \cup {<<NaN, NaN, NaN>>}

\* the PointSourcePanner of a configured panner: the panner itself on the
\* 0+2+0 path, the inner panner of the downmix otherwise
psp_of(p) == IF p.type = "PointSourcePannerDownmix" THEN p.psp ELSE p

----------------------------------------------------------------------------
(* The block formats of an audioChannelFormat and the repair of their      *)
(* durations, timing_fixes.fix_blockFormat_durations.  Times are whole     *)
(* seconds.  A block format is named by its place in the list.             *)

\* rtime=None, duration=None, and the interpolationLength without a jump
NoTime == -1

NoJump == [flag |-> FALSE, interpolationLength |-> NoTime]

JumpPositions ==
    {NoJump} \cup {[flag |-> TRUE, interpolationLength |-> t] : t \in 0..MaxDuration}

make_abfo(rtime, duration) ==
    [rtime |-> rtime, duration |-> duration, jumpPosition |-> NoJump]

two_blocks == <<make_abfo(0, 1), make_abfo(1, 1)>>

one_block == <<make_abfo(NoTime, NoTime)>>

AudioBlockFormatObjects ==
    [rtime : 0..MaxTime, duration : 1..MaxDuration, jumpPosition : JumpPositions]

\* the lists of block formats: the blocks of a list are in the order of time
audioBlockFormats ==
    {one_block} \cup
    UNION {{bfs \in [1..n -> AudioBlockFormatObjects] :
               \A i \in 1..(n - 1) : bfs[i].rtime < bfs[i + 1].rtime} : n \in 1..MaxBlocks}

NoADM == [state |-> "none", before |-> <<>>, audioBlockFormats |-> <<>>, warnings |-> <<>>]

\* the document as read; "before" keeps the block formats as they were read
ADM(bfs) == [state |-> "read", before |-> bfs, audioBlockFormats |-> bfs, warnings |-> <<>>]

\* a variant that takes the rtime of the next block for the duration, which
\* is right for a first block that starts at 0
new_duration_from_zero(bf_a, bf_b) == bf_b.rtime

\* the time from the start of a block to the start of the next
new_duration(bf_a, bf_b) == bf_b.rtime - bf_a.rtime

\* the interpolation of a block does not outlast the block
clamped(bf) ==
    IF bf.jumpPosition.flag /\ bf.jumpPosition.interpolationLength > bf.duration
    THEN [bf EXCEPT !.jumpPosition.interpolationLength = bf.duration]
    ELSE bf

fixed_duration(bf_a, bf_b) ==
    IF bf_a.duration = new_duration(bf_a, bf_b)
    THEN bf_a
    ELSE clamped([bf_a EXCEPT !.duration = new_duration(bf_a, bf_b)])

\* "{direction} duration of block format {id}; was: {was}, now: {now}"
duration_warning(id, bf_a, bf_b) ==
    [direction |-> IF new_duration(bf_a, bf_b) < bf_a.duration
                   THEN "contracted" ELSE "expanded",
     id |-> id,
     was |-> bf_a.duration,
     now |-> new_duration(bf_a, bf_b)]

\* the warnings of the pairs (i, i + 1), (i + 1, i + 2), ... in this order
RECURSIVE duration_warnings(_, _)
duration_warnings(bfs, i) ==
    IF i >= Len(bfs) THEN <<>>
    ELSE (IF bfs[i].duration = new_duration(bfs[i], bfs[i + 1])
          THEN <<>>
          ELSE <<duration_warning(i, bfs[i], bfs[i + 1])>>)
         \o duration_warnings(bfs, i + 1)

\* timing_fixes.fix_blockFormat_durations(adm)
fix_blockFormat_durations ==
    /\ adm.state = "read"
    /\ adm' = [adm EXCEPT
                  !.state = "fixed",
                  !.audioBlockFormats =
                      [i \in DOMAIN @ |->
                          IF i < Len(@) THEN fixed_duration(@[i], @[i + 1]) ELSE @[i]],
                  !.warnings = duration_warnings(adm.audioBlockFormats, 1)]
    /\ UNCHANGED <<pc, layout, panner, query, np, psp_pv, result>>

Init ==
    /\ pc = "init"
    /\ layout = NoLayout
    /\ panner = Failed("", NoLocals)
    /\ query = NoPosition
    /\ np = NoEnv
    /\ psp_pv = Idle
    /\ result = Idle
    /\ adm = NoADM

\* panner = configure(layout)
Configure(l, ascending) ==
    /\ pc = "init"
    /\ layout' = l
    /\ panner' = configure(l, ascending)
    /\ pc' = IF panner'.status = "ok" THEN "ready" ELSE "failed"
    /\ UNCHANGED <<query, np, psp_pv, result, adm>>

\* a variant in which PointSourcePannerDownmix.handle normalises in place
\* an array that is still the downmix of the panner ("pv /= norm" on an alias)
Handle_in_place(position, e) ==
    /\ pc = "ready"
    /\ query' = position
    /\ np' = e
    /\ psp_pv' = PointSourcePanner_handle(psp_of(panner.panner), position, e)
    /\ result' = IF panner.panner.type = "PointSourcePannerDownmix"
                 THEN downmixed(panner.panner, psp_pv')
                 ELSE psp_pv'
    /\ pc' = "returned"
    /\ panner' = IF panner.panner.type = "PointSourcePannerDownmix"
                 THEN [panner EXCEPT !.panner.downmix =
                          [r \in DOMAIN @ |-> normalised(@[r])]]
                 ELSE panner
    /\ UNCHANGED <<layout, adm>>

\* result = panner.handle(position); psp_pv is what the PointSourcePanner returns
Handle(position, e) ==
    /\ pc = "ready"
    /\ query' = position
    /\ np' = e
    /\ psp_pv' = PointSourcePanner_handle(psp_of(panner.panner), position, e)
    /\ result' = IF panner.panner.type = "PointSourcePannerDownmix"
                 THEN downmixed(panner.panner, psp_pv')
                 ELSE psp_pv'
    /\ pc' = "returned"
    /\ UNCHANGED <<layout, panner, adm>>

\* the caller takes the result
Return ==
    /\ pc = "returned"
    /\ pc' = "ready"
    /\ query' = NoPosition
    /\ np' = NoEnv
    /\ psp_pv' = Idle
    /\ result' = Idle
    /\ UNCHANGED <<layout, panner, adm>>

Next ==
    \/ \E l \in Layouts, ascending \in BOOLEAN : Configure(l, ascending)
    \/ \E position \in Positions, e \in Envs : Handle(position, e)
    \/ Return

Spec == Init /\ [][Next]_vars

\* the repair of the durations, on every list of block formats
TimingInit ==
    /\ pc = "init"
    /\ layout = NoLayout
    /\ panner = Failed("", NoLocals)
    /\ query = NoPosition
    /\ np = NoEnv
    /\ psp_pv = Idle
    /\ result = Idle
    /\ adm \in {ADM(bfs) : bfs \in audioBlockFormats}

TimingNext == fix_blockFormat_durations

TimingSpec == TimingInit /\ [][TimingNext]_vars

----------------------------------------------------------------------------
(* The properties.                                                          *)

\* the elements of a sequence
set_of(s) == {s[i] : i \in DOMAIN s}

\* a direction: a finite position that is not the zero vector.  handle
\* depends on a direction only, so <<x, y, z>> stands for the point of the
\* unit sphere on its ray
is_direction(p) == p # NoPosition /\ ~HasNaN(p) /\ p # <<0, 0, 0>>

has_lfe(l) == \E i \in DOMAIN l.channels : l.channels[i].is_lfe

\* configure(l) has gone down the full pipeline
full_pipeline(l) == l # NoLayout /\ ~has_lfe(l) /\ l.name # "0+2+0"

lfe_error == "AssertionError: lfe channel passed to point source panner"

\* what each region of the PointSourcePanner answers to the query on its own
region_outcomes ==
    [k \in DOMAIN psp_of(panner.panner).regions |->
        region_handle(psp_of(panner.panner).regions[k], query, np)]

\* the result pv of self.handle is what the outcomes of its regions make it
\* by C1
first_gains_decide(self, outcomes, pv) ==
    IF \A k \in DOMAIN outcomes : outcomes[k].kind # "gains" THEN pv = None
    ELSE /\ pv.kind = "gains"
         /\ Len(pv.g) = self.num_channels
         /\ \E first \in DOMAIN outcomes :
               /\ outcomes[first].kind = "gains"
               /\ \A k \in 1..(first - 1) : outcomes[k].kind # "gains"
               /\ \A i \in DOMAIN self.regions[first].output_channels :
                     pv.g[self.regions[first].output_channels[i]] = outcomes[first].g[i]
               /\ \A c \in 1..self.num_channels :
                     c \notin set_of(self.regions[first].output_channels) => pv.g[c] = 0

\* C1: PointSourcePanner.handle returns the answer of the first region, in
\* list order, that returns gains: a vector of num_channels entries with that
\* region's gains at its output_channels and 0 everywhere else, whatever the
\* later regions answer; when no region returns gains the result is None.
\* The state reached by handle(NaN position) on the 0+2+0 panner violates it:
\* no region returns gains and the call raises.
C1_FirstRegionDecides ==
    pc = "returned" => first_gains_decide(psp_of(panner.panner), region_outcomes, psp_pv)

\* C2: for every configured panner and every direction, at least one region
\* returns gains, and handle does not return None.
C2_SphereCovered ==
    pc = "returned" /\ is_direction(query) =>
        /\ \E k \in DOMAIN psp_of(panner.panner).regions :
               region_handle(psp_of(panner.panner).regions[k], query, np).kind = "gains"
        /\ psp_pv.kind = "gains"
        /\ result.kind = "gains"

\* a direction through a virtual apex, which only the n-gon below covers
C2_Witness ==
    /\ pc = "returned"
    /\ layout.name = "4+5+1"
    /\ query = <<0, 0, -1>>
    /\ result.kind = "gains"
    /\ region_outcomes[1].kind = "gains"

\* C3: the num_channels of a configured panner is the number of channels of
\* the layout it was configured for, on the 0+2+0 path and on the full
\* pipeline, and every gain vector handle returns has that many entries.
C3_NumChannels ==
    panner.status = "ok" =>
        /\ num_channels(panner.panner) = Len(layout.channels)
        /\ pc = "returned" /\ result.kind = "gains" =>
              Len(result.g) = num_channels(panner.panner)

\* gains of a panner with extra channels and two virtual speakers
C3_Witness ==
    /\ pc = "returned"
    /\ layout.name = "4+5+0"
    /\ panner.locals.extra_channels # <<>>
    /\ result.kind = "gains"
    /\ Len(result.g) = 9

\* C4: every component of every gain vector handle returns is >= 0.
\* The state reached by handle((0, 0, 0)) violates it: the vector is NaN.
C4_GainsNonNegative ==
    pc = "returned" /\ result.kind = "gains" =>
        \A i \in DOMAIN result.g : FNonNeg(result.g[i])

\* C5: handle of a configured panner never raises: its outcome is gains or
\* None.  The state reached by handle(NaN position) on the 0+2+0 panner
\* violates it.
C5_HandleNeverRaises ==
    pc = "returned" => result.kind \in {"gains", "none"}

\* C6: configure raises, before the branch on the name and without a panner,
\* when a channel of the layout is an LFE channel, and raises this error for
\* no layout without one.
C6_LfeRejected ==
    pc # "init" =>
        /\ has_lfe(layout) =>
              /\ pc = "failed"
              /\ panner.status = "error"
              /\ panner.error = lfe_error
              /\ panner.panner = NoPanner
              /\ panner.locals = NoLocals
        /\ ~has_lfe(layout) => panner.error # lfe_error

\* a layout with the name 0+2+0 and an LFE channel, rejected
C6_Witness ==
    /\ pc = "failed"
    /\ layout.name = "0+2+0"
    /\ has_lfe(layout)
    /\ panner.error = lfe_error

\* the limit of C7 for the layer of elevations lb..ub
claimed_az_limit(chs, lb, ub) ==
    LET on == {i \in DOMAIN chs : lb <= chs[i].nominal_el /\ chs[i].nominal_el <= ub}
    IN IF on = {} THEN 0 ELSE 40 + MaxOf({Abs(chs[i].nominal_az) : i \in on})

\* the mid channels C7 gives an extra channel on the layer of elevations
\* lb..ub: |nominal azimuth| >= az_limit - 1e-5, in units of 1e-5 degrees
claimed_sources(chs, lb, ub) ==
    {i \in DOMAIN chs :
        /\ -10 <= chs[i].nominal_el /\ chs[i].nominal_el <= 10
        /\ 100000 * Abs(chs[i].nominal_az) >= 100000 * claimed_az_limit(chs, lb, ub) - 1}

\* C7: there is one extra channel for each outer layer and each mid channel
\* whose |nominal azimuth| >= az_limit - 1e-5 and no other, az_limit being 0
\* for a layer without channels and 40 plus the largest |nominal azimuth| of
\* the layer otherwise; the downmix has len(original) rows and len(original)
\* + number of extras columns, is the identity on the original channels, and
\* the column of an extra has a single 1, in the row of its mid channel.
C7_ExtraChannels ==
    pc # "init" /\ full_pipeline(layout) =>
        LET chs == layout.channels
            n == Len(chs)
            ex == panner.locals.extra_channels
            D == panner.locals.downmix
            lower == claimed_sources(chs, -70, -10)
            upper == claimed_sources(chs, 10, 70)
            row(k) == CHOOSE r \in 1..n : D[r][n + k] = 1
            on(el) == {k \in DOMAIN ex : ex[k].nominal_el = el}
        IN /\ Len(ex) = Cardinality(lower) + Cardinality(upper)
           /\ Len(D) = n
           /\ \A r \in 1..n : Len(D[r]) = n + Len(ex)
           /\ \A r, c \in 1..n : D[r][c] = IF r = c THEN 1 ELSE 0
           /\ \A k \in DOMAIN ex :
                 /\ Cardinality({r \in 1..n : D[r][n + k] = 1}) = 1
                 /\ \A r \in 1..n : D[r][n + k] \in {0, 1}
                 /\ ex[k].nominal_el \in {-30, 30}
                 /\ ex[k].nominal_az = chs[row(k)].nominal_az
                 /\ ex[k].real_az = chs[row(k)].real_az
           /\ {row(k) : k \in on(-30)} = lower
           /\ Cardinality(on(-30)) = Cardinality(lower)
           /\ {row(k) : k \in on(30)} = upper
           /\ Cardinality(on(30)) = Cardinality(upper)

\* the upper layer reaches to 70 degrees and the mid channels at 110 degrees
\* are exactly at the limit: five extras below and two above
C7_Witness ==
    /\ pc = "ready"
    /\ layout.name = "2+5+0 wide"
    /\ Len(panner.locals.extra_channels) = 7
    /\ Len(panner.panner.downmix[1]) = 14

\* the vertices that share a facet with vert
claimed_ring(facets, vert) ==
    {v \in UNION {facets[k] : k \in DOMAIN facets} :
        v # vert /\ \E k \in DOMAIN facets : {v, vert} \subseteq facets[k]}

\* C8: the full pipeline adds the virtual speaker (0, 0, -1) always and
\* (0, 0, 1) exactly when the layout has neither T+000 nor UH+180; the
\* regions of the panner hold exactly one VirtualNgon for each of them, over
\* the hull vertices adjacent to it, none of which is a virtual speaker.
C8_VirtualNgons ==
    pc # "init" /\ full_pipeline(layout) =>
        LET vp == panner.locals.virtual_positions
            vv == panner.locals.virtual_verts
            n == Len(layout.channels) + Len(panner.locals.extra_channels)
            top == \E i \in DOMAIN layout.channels :
                      layout.channels[i].name \in {"T+000", "UH+180"}
            regions == panner.panner.psp.regions
            ngons == {r \in DOMAIN regions : regions[r].type = "VirtualNgon"}
        IN /\ vp[1] = <<0, 0, -25>>
           /\ Len(vp) = IF top THEN 1 ELSE 2
           /\ ~top => vp[2] = <<0, 0, 25>>
           /\ vv = [k \in DOMAIN vp |-> n + k]
           /\ panner.status = "ok" =>
                 /\ Cardinality(ngons) = Len(vp)
                 /\ \A k \in DOMAIN vp :
                       \E r \in ngons :
                          /\ regions[r].centre_position = vp[k]
                          /\ set_of(regions[r].output_channels)
                                = claimed_ring(panner.locals.facets, vv[k])
                          /\ Len(regions[r].output_channels)
                                = Cardinality(claimed_ring(panner.locals.facets, vv[k]))
                          /\ set_of(regions[r].output_channels) \cap set_of(vv) = {}
                          /\ \A r2 \in ngons :
                                regions[r2].centre_position = vp[k] => r2 = r

\* UH+180 keeps the upper virtual speaker away: one VirtualNgon
C8_Witness ==
    /\ pc = "ready"
    /\ layout.name = "3+7+0"
    /\ Len(panner.locals.virtual_positions) = 1
    /\ Cardinality({r \in DOMAIN panner.panner.psp.regions :
                       panner.panner.psp.regions[r].type = "VirtualNgon"}) = 1

\* the facets without a virtual speaker
claimed_plain ==
    {k \in DOMAIN panner.locals.facets :
        panner.locals.facets[k] \cap set_of(panner.locals.virtual_verts) = {}}

\* C9: every facet of the hull without a virtual speaker becomes exactly one
\* region over exactly its vertices, a Triplet for 3 vertices and a
\* QuadRegion for 4, and configure fails when it has more than 4; the facets
\* with a virtual speaker give no Triplet and no QuadRegion.
C9_FacetRegions ==
    pc # "init" /\ full_pipeline(layout) =>
        LET facets == panner.locals.facets
        IN /\ (\E k \in claimed_plain : Cardinality(facets[k]) > 4) =>
                 panner.status = "error"
           /\ panner.status = "ok" =>
                 LET regions == panner.panner.psp.regions
                     flat == {r \in DOMAIN regions :
                                 regions[r].type \in {"Triplet", "QuadRegion"}}
                 IN /\ \A k \in claimed_plain :
                          /\ Cardinality({r \in flat :
                                set_of(regions[r].output_channels) = facets[k]}) = 1
                          /\ \A r \in flat :
                                set_of(regions[r].output_channels) = facets[k] =>
                                   /\ Len(regions[r].output_channels)
                                         = Cardinality(facets[k])
                                   /\ regions[r].type =
                                         IF Cardinality(facets[k]) = 3
                                         THEN "Triplet" ELSE "QuadRegion"
                    /\ \A r \in flat :
                          \E k \in claimed_plain :
                             set_of(regions[r].output_channels) = facets[k]
                    /\ Cardinality(flat) = Cardinality(claimed_plain)

\* a panner with a Triplet and with a QuadRegion, and a facet of each kind
\* that holds a virtual speaker
C9_Witness ==
    /\ pc = "ready"
    /\ full_pipeline(layout)
    /\ \E r \in DOMAIN panner.panner.psp.regions :
          panner.panner.psp.regions[r].type = "Triplet"
    /\ \E r \in DOMAIN panner.panner.psp.regions :
          panner.panner.psp.regions[r].type = "QuadRegion"
    /\ claimed_plain # DOMAIN panner.locals.facets

\* C10: the inner PointSourcePanner of a panner of the full pipeline has
\* num_channels = len(layout_extra.channels), which is the number of columns
\* of the downmix, whose number of rows is the num_channels of the panner:
\* np.dot(downmix, pv) in PointSourcePannerDownmix.handle never fails.
C10_DownmixShape ==
    panner.status = "ok" /\ full_pipeline(layout) =>
        LET self == panner.panner
        IN /\ self.psp.num_channels
                 = Len(layout.channels) + Len(panner.locals.extra_channels)
           /\ \A r \in DOMAIN self.downmix : Len(self.downmix[r]) = self.psp.num_channels
           /\ Len(self.downmix) = num_channels(self)
           /\ pc = "returned" =>
                 /\ result.error # "ValueError"
                 /\ psp_pv.kind = "gains" => Len(psp_pv.g) = Len(self.downmix[1])

\* a downmix of 15 columns applied to the gains of the inner panner
C10_Witness ==
    /\ pc = "returned"
    /\ layout.name = "0+5+0"
    /\ panner.panner.psp.num_channels = 15
    /\ Len(panner.panner.downmix) = 5
    /\ psp_pv.kind = "gains"
    /\ result.kind = "gains"

\* the source is at the virtual speaker of ngon: in the working buffer v of
\* the sub-triplet only the virtual slot has gain, the n-gon gives all its
\* speakers one and the same gain, and the panner gives it to the channels of
\* the ring and 0 to every other channel
apex_folded(ngon, v, out, pv) ==
    /\ v.kind = "gains"
    /\ v.g[Len(ngon.output_channels) + 1] = GainScale
    /\ \A i \in DOMAIN ngon.output_channels : v.g[i] = 0
    /\ out.kind = "gains"
    /\ Len(out.g) = Len(ngon.output_channels)
    /\ \A i \in DOMAIN out.g : out.g[i] = out.g[1] /\ out.g[1] > 0
    /\ pv.kind = "gains"
    /\ \A c \in DOMAIN pv.g :
          pv.g[c] = IF c \in set_of(ngon.output_channels) THEN out.g[1] ELSE 0

\* the source is straight above (up) or below the listener
at_pole(p, up) ==
    /\ is_direction(p)
    /\ p[1] = 0 /\ p[2] = 0
    /\ IF up THEN p[3] > 0 ELSE p[3] < 0

\* C11: for a source exactly at a virtual speaker, (0, 0, 1) or (0, 0, -1),
\* the VirtualNgon of that speaker gives every loudspeaker of its ring the
\* same gain and every other channel 0: the gain is all in the virtual slot
\* and comes back through centre_downmix, none of it directly.
C11_ApexEqualGains ==
    pc = "returned" /\ full_pipeline(layout) =>
        \A r \in DOMAIN panner.panner.psp.regions :
            /\ panner.panner.psp.regions[r].type = "VirtualNgon"
            /\ at_pole(query, panner.panner.psp.regions[r].centre_position[3] > 0)
            => apex_folded(panner.panner.psp.regions[r],
                           first_triplet(panner.panner.psp.regions[r].regions, 1, query,
                                         Len(panner.panner.psp.regions[r].centre_downmix) + 1),
                           VirtualNgon_handle(panner.panner.psp.regions[r], query),
                           psp_pv)

\* the zenith of 4+5+0: the four upper loudspeakers share the gain
C11_Witness ==
    /\ pc = "returned"
    /\ layout.name = "4+5+0"
    /\ query = <<0, 0, 1>>
    /\ psp_pv.kind = "gains"
    /\ psp_pv.g[6] > 0
    /\ psp_pv.g[6] = psp_pv.g[9]
    /\ psp_pv.g[1] = 0
    /\ result.g = <<0, 0, 0, 0, 0, 500, 500, 500, 500>>

claimed_warning(before, i) ==
    IF before[i].duration = before[i + 1].rtime - before[i].rtime THEN {}
    ELSE {[direction |-> IF before[i].duration < before[i + 1].rtime - before[i].rtime
                         THEN "expanded" ELSE "contracted",
           id |-> i,
           was |-> before[i].duration,
           now |-> before[i + 1].rtime - before[i].rtime]}

\* C13: after fix_blockFormat_durations the duration of every block that has
\* a next block is the rtime of the next block minus its own rtime; a
\* duration that was shorter is expanded and one that was longer contracted,
\* each with one warning that names the old and the new duration, and no
\* rtime has changed.
C13_DurationsFixed ==
    adm.state = "fixed" =>
        /\ Len(adm.audioBlockFormats) = Len(adm.before)
        /\ \A i \in DOMAIN adm.before :
               adm.audioBlockFormats[i].rtime = adm.before[i].rtime
        /\ \A i \in 1..(Len(adm.before) - 1) :
               /\ adm.audioBlockFormats[i].duration =
                      adm.audioBlockFormats[i + 1].rtime - adm.audioBlockFormats[i].rtime
               /\ {adm.warnings[w] : w \in {x \in DOMAIN adm.warnings : adm.warnings[x].id = i}}
                      = claimed_warning(adm.before, i)
        /\ Len(adm.warnings) =
               Cardinality({i \in 1..(Len(adm.before) - 1) : claimed_warning(adm.before, i) # {}})

\* the first block of two, one second long and two seconds before the next,
\* has been expanded
C13_Witness ==
    /\ adm.state = "fixed"
    /\ adm.before = <<make_abfo(0, 1), make_abfo(2, 1)>>
    /\ adm.audioBlockFormats[1].duration = 2
    /\ adm.warnings = <<[direction |-> "expanded", id |-> 1, was |-> 1, now |-> 2]>>

\* the sub-triplets of ngon are those of the edges of the cyclic order
claimed_triplets(ngon, n, order) ==
    /\ Len(ngon.regions) = n
    /\ Len(order) = n
    /\ set_of(order) = 1..n
    /\ \A i \in 1..n :
           /\ ngon.regions[i].type = "Triplet"
           /\ ngon.regions[i].output_channels = <<order[i], order[(i % n) + 1], n + 1>>
           /\ ngon.regions[i].positions =
                  <<ngon.positions[order[i]], ngon.positions[order[(i % n) + 1]],
                    ngon.centre_position>>
    /\ \A c \in 1..n :
           Cardinality({i \in 1..n : \E j \in 1..2 : ngon.regions[i].output_channels[j] = c}) = 2

\* the sub-triplets of ngon that accept position
accepting(ngon, position) ==
    {k \in DOMAIN ngon.regions : Triplet_handle(ngon.regions[k], position).kind = "gains"}

\* out is what the first of the sub-triplets ks gives, the centre folded in
claimed_first(ngon, n, position, ks, out) ==
    IF ks = {} THEN out = None
    ELSE /\ out.kind = "gains"
         /\ Len(out.g) = n
         /\ out = centre_downmixed(ngon.centre_downmix,
                      handle_remap(Triplet_handle(ngon.regions[MinOf(ks)], position),
                                   ngon.regions[MinOf(ks)].output_channels, n + 1))

\* C14 (the sub-triplets are looked at when configure has built them, the
\* result of handle when it has returned): a VirtualNgon over n loudspeakers
\* has n sub-triplets, the i-th made of
\* the vertices i and i + 1 (mod n) of the cyclic vertex order and of the
\* virtual centre, the centre in slot n; every loudspeaker is in exactly two
\* of them and the centre in all; handle gives a vector of length n, taken
\* from the first sub-triplet that accepts the position.
C14_NgonTriplets ==
    pc \in {"ready", "returned"} /\ full_pipeline(layout) =>
        \A r \in DOMAIN panner.panner.psp.regions :
            panner.panner.psp.regions[r].type = "VirtualNgon" =>
                /\ pc = "ready" =>
                       claimed_triplets(panner.panner.psp.regions[r],
                                        Len(panner.panner.psp.regions[r].output_channels),
                                        ngon_vertex_order(panner.panner.psp.regions[r].positions))
                /\ pc = "returned" =>
                       claimed_first(panner.panner.psp.regions[r],
                                     Len(panner.panner.psp.regions[r].output_channels),
                                     query,
                                     accepting(panner.panner.psp.regions[r], query),
                                     VirtualNgon_handle(panner.panner.psp.regions[r], query))

\* a position that the first sub-triplet of a ngon of four refuses and a
\* later one accepts
C14_Witness ==
    /\ pc = "returned"
    /\ full_pipeline(layout)
    /\ \E r \in DOMAIN panner.panner.psp.regions :
           /\ panner.panner.psp.regions[r].type = "VirtualNgon"
           /\ Len(panner.panner.psp.regions[r].regions) = 4
           /\ accepting(panner.panner.psp.regions[r], query) # {}
           /\ 1 \notin accepting(panner.panner.psp.regions[r], query)
           /\ Len(VirtualNgon_handle(panner.panner.psp.regions[r], query).g) = 4

\* the VirtualNgons of the panner self that accept position
accepting_ngons(self, position) ==
    {r \in DOMAIN self.regions :
        /\ self.regions[r].type = "VirtualNgon"
        /\ VirtualNgon_handle(self.regions[r], position).kind = "gains"}

\* pv is what region r of self gives for position, on the channels of self
rendered_by(self, r, position, pv) ==
    pv = handle_remap(VirtualNgon_handle(self.regions[r], position),
                      self.regions[r].output_channels, self.num_channels)

\* when some VirtualNgon of rs accepts position, pv is what the first gives
rendered_by_first(self, rs, position, pv) ==
    rs # {} => rendered_by(self, MinOf(rs), position, pv)

\* C15: in a panner of the full pipeline every VirtualNgon comes before every
\* Triplet and QuadRegion of the list of regions, so that a position that a
\* virtual ngon accepts is rendered by a virtual ngon (the first that accepts
\* it), whatever facet region accepts it too.
C15_NgonsFirst ==
    pc \in {"ready", "returned"} /\ full_pipeline(layout) =>
        /\ \A i, j \in DOMAIN panner.panner.psp.regions :
               /\ panner.panner.psp.regions[i].type = "VirtualNgon"
               /\ panner.panner.psp.regions[j].type \in {"Triplet", "QuadRegion"}
               => i < j
        /\ pc = "returned" =>
               rendered_by_first(panner.panner.psp,
                                 accepting_ngons(panner.panner.psp, query), query, psp_pv)

\* a position on the edge that a virtual ngon shares with a facet region:
\* both accept it, and the gains are those of the ngon
C15_Witness ==
    /\ pc = "returned"
    /\ full_pipeline(layout)
    /\ is_direction(query)
    /\ accepting_ngons(panner.panner.psp, query) # {}
    /\ \E j \in DOMAIN panner.panner.psp.regions :
           /\ panner.panner.psp.regions[j].type \in {"Triplet", "QuadRegion"}
           /\ region_handle(panner.panner.psp.regions[j], query, np).kind = "gains"
    /\ psp_pv.kind = "gains"

====
